---- MODULE Spec2Model ----
(***************************************************************************)
(* The data-acquisition layer of the Lyft bike-share batch systems: the    *)
(* two DataDownloader classes (batch_systems and hourly_systems), their    *)
(* catalog resolution (file name, URL, archive name), the local cache      *)
(* check, the archive download and the month loop of load_raw_data.        *)
(*                                                                         *)
(* A Python str is a sequence of one-character strings, so that string     *)
(* formatting, concatenation, slicing and the regular expression are       *)
(* computed and not assumed.  A pathlib.Path is the str it renders to.     *)
(***************************************************************************)
EXTENDS Integers, Sequences, FiniteSets, TLC

VARIABLES
    system,               \* which module's DataDownloader: "batch" or "hourly"
    city_name,            \* self.city_name
    year,                 \* self.year
    now,                  \* the clock dt.now() reads: [year, month]
    fs,                   \* the paths present on the local file system
    pc,                   \* "ctor_error" | "idle" | "loop" | "done"
    args,                 \* the arguments of the running load_raw_data call
    months_to_query_for,  \* the local of load_raw_data
    idx,                  \* position of the for loop in months_to_query_for
    batches,              \* frames handed to the caller (concatenated or yielded)
    returned,             \* how the call ended: "pending" | "None" | "DataFrame" | "StopIteration" | "raised"
    raised,               \* the exception that left the call, "" when none
    log,                  \* the loguru records of the call
    trace,                \* one record per loop iteration: what it did
    ncalls,               \* load_raw_data calls started on this object
    prev,                 \* the trace of the previous finished call
    probe                 \* last direct call of a resolver function and its outcome

vars == <<system, city_name, year, now, fs, pc, args, months_to_query_for, idx,
          batches, returned, raised, log, trace, ncalls, prev, probe>>

-----------------------------------------------------------------------------
(* String literals of the source.                                          *)

S_bay_area == <<"b","a","y","_","a","r","e","a">>
S_chicago == <<"c","h","i","c","a","g","o">>
S_new_york == <<"n","e","w","_","y","o","r","k">>
S_columbus == <<"c","o","l","u","m","b","u","s">>
S_washington_dc == <<"w","a","s","h","i","n","g","t","o","n","_","d","c">>
S_portland == <<"p","o","r","t","l","a","n","d">>
S_bay_area_sp == <<"b","a","y"," ","a","r","e","a">>
S_new_york_sp == <<"n","e","w"," ","y","o","r","k">>
S_washington_dc_sp == <<"w","a","s","h","i","n","g","t","o","n"," ","d","c">>
S_divvy == <<"-","d","i","v","v","y","-","t","r","i","p","d","a","t","a">>
S_citibike == <<"-","c","i","t","i","b","i","k","e","-","t","r","i","p","d","a","t","a">>
S_cogo == <<"-","c","o","g","o","-","t","r","i","p","d","a","t","a">>
S_capital == <<"-","c","a","p","i","t","a","l","b","i","k","e","s","h","a","r","e","-","t","r","i","p","d","a","t","a">>
S_csv == <<".","c","s","v">>
S_head_chicago == <<"d","i","v","v","y","-","t","r","i","p","d","a","t","a",".","s","3",".","a","m","a","z","o","n","a","w","s",".","c","o","m","/">>
S_head_new_york == <<"s","3",".","a","m","a","z","o","n","a","w","s",".","c","o","m","/","t","r","i","p","d","a","t","a","/">>
S_head_columbus == <<"c","o","g","o","-","s","y","s","-","d","a","t","a",".","s","3",".","a","m","a","z","o","n","a","w","s",".","c","o","m","/">>
S_head_washington_dc == <<"s","3",".","a","m","a","z","o","n","a","w","s",".","c","o","m","/","c","a","p","i","t","a","l","b","i","k","e","s","h","a","r","e","-","d","a","t","a","/">>
S_head_portland == <<"s","3",".","a","m","a","z","o","n","a","w","s",".","c","o","m","/","b","i","k","e","t","o","w","n","-","t","r","i","p","d","a","t","a","-","p","u","b","l","i","c","/">>
S_https == <<"h","t","t","p","s",":","/","/">>
S_upper == <<"A","B","C","D","E","F","G","H","I","J","K","L","M","N","O","P","Q","R","S","T","U","V","W","X","Y","Z">>
S_lower == <<"a","b","c","d","e","f","g","h","i","j","k","l","m","n","o","p","q","r","s","t","u","v","w","x","y","z">>
S_digits == <<"0","1","2","3","4","5","6","7","8","9">>

(* Python's None, kept apart from every str.                               *)
None == <<"None">>

(* The outcome of a call: the exception it raised ("" when it returned)    *)
(* and the value it returned.                                              *)
Return(v) == [exc |-> "", val |-> v]
Raise(e) == [exc |-> e, val |-> None]

-----------------------------------------------------------------------------
(* str operations.                                                         *)

StartsWith(s, p) == Len(s) >= Len(p) /\ SubSeq(s, 1, Len(p)) = p
EndsWith(s, p) == Len(s) >= Len(p) /\ SubSeq(s, Len(s) - Len(p) + 1, Len(s)) = p

(* str.lower() *)
lower(s) ==
    [i \in 1..Len(s) |->
        IF \E k \in 1..Len(S_upper) : S_upper[k] = s[i]
        THEN S_lower[CHOOSE k \in 1..Len(S_upper) : S_upper[k] = s[i]]
        ELSE s[i]]

(* str(n) for n >= 0 *)
RECURSIVE str(_)
str(n) == IF n < 10 THEN <<S_digits[n + 1]>> ELSE str(n \div 10) \o <<S_digits[(n % 10) + 1]>>

(* f"{month:02d}" for month >= 0 *)
format_02d(month) == IF month < 10 THEN <<"0">> \o str(month) ELSE str(month)

(* s[:-4] *)
DropLast4(s) == IF Len(s) <= 4 THEN <<>> ELSE SubSeq(s, 1, Len(s) - 4)

-----------------------------------------------------------------------------
(* The per-city tables.                                                    *)

service_names(sys) ==
    IF sys = "batch"
    THEN {S_bay_area, S_chicago, S_new_york, S_columbus, S_washington_dc, S_portland}
    ELSE {S_bay_area_sp, S_chicago, S_new_york_sp, S_columbus, S_washington_dc_sp, S_portland}

(* config.cities *)
cities == {S_bay_area, S_chicago, S_washington_dc, S_new_york, S_portland, S_columbus}

city_name_and_url(sys, year_and_month) ==
    (S_chicago :> year_and_month \o S_divvy)
    @@ ((IF sys = "batch" THEN S_new_york ELSE S_new_york_sp) :> year_and_month \o S_citibike)
    @@ (S_columbus :> year_and_month \o S_cogo)
    @@ ((IF sys = "batch" THEN S_washington_dc ELSE S_washington_dc_sp) :> year_and_month \o S_capital)
    @@ (S_portland :> year_and_month \o S_csv)

city_name_and_url_head(sys) ==
    (S_chicago :> S_head_chicago)
    @@ ((IF sys = "batch" THEN S_new_york ELSE S_new_york_sp) :> S_head_new_york)
    @@ (S_columbus :> S_head_columbus)
    @@ ((IF sys = "batch" THEN S_washington_dc ELSE S_washington_dc_sp) :> S_head_washington_dc)
    @@ (S_portland :> S_head_portland)

PortlandLastYear == 2020

-----------------------------------------------------------------------------
(* Catalog resolution.                                                     *)

(* get_data_file_name: the batch class indexes the dict (KeyError), the    *)
(* hourly class asserts membership first (AssertionError).                 *)
get_data_file_name(sys, city, yr, month) ==
    LET year_and_month == str(yr) \o format_02d(month)
        table == city_name_and_url(sys, year_and_month)
    IN  IF city \in DOMAIN table THEN Return(table[city])
        ELSE IF sys = "batch" THEN Raise("KeyError")
        ELSE Raise("AssertionError")

(* get_url_for_city_data with the Portland cutoff one year early.          *)
get_url_for_city_data_CutoffEarly(sys, city, yr, month) ==
    IF city = S_portland /\ yr >= PortlandLastYear
    THEN [exc |-> "", val |-> None, logged |-> 1]
    ELSE [exc |-> get_data_file_name(sys, city, yr, month).exc,
          val |-> IF get_data_file_name(sys, city, yr, month).exc # "" THEN None
                  ELSE (IF sys = "batch" THEN S_https ELSE <<>>)
                       \o city_name_and_url_head(sys)[city]
                       \o get_data_file_name(sys, city, yr, month).val,
          logged |-> 0]

(* get_url_for_city_data: for Portland after 2020 it logs an error and     *)
(* falls off the end of the function, returning None (field logged).       *)
get_url_for_city_data(sys, city, yr, month) ==
    IF city = S_portland /\ yr > PortlandLastYear
    THEN [exc |-> "", val |-> None, logged |-> 1]
    ELSE LET file_name == get_data_file_name(sys, city, yr, month)
         IN  IF file_name.exc # ""
             THEN [exc |-> file_name.exc, val |-> None, logged |-> 0]
             ELSE [exc |-> "",
                   val |-> (IF sys = "batch" THEN S_https ELSE <<>>)
                           \o city_name_and_url_head(sys)[city] \o file_name.val,
                   logged |-> 0]

(* re.search with the pattern of get_zipfile_name (one or more characters  *)
(* other than the slash, then a group of any characters): the match starts *)
(* at the first character that is not a slash, the first part takes the    *)
(* whole run of such characters, and group 1 is what follows up to the end *)
(* of the line (the dot matches no newline).  A str with no character      *)
(* other than the slash has no match.  A url that is None makes re.search  *)
(* raise TypeError.                                                        *)
get_zipfile_name(url) ==
    IF url = None THEN Raise("TypeError")
    ELSE IF \A i \in 1..Len(url) : url[i] = "/" THEN Raise("Exception")
    ELSE LET first == CHOOSE i \in 1..Len(url) :
                          url[i] # "/" /\ \A j \in 1..(i - 1) : url[j] = "/"
             stops == {k \in (first + 1)..Len(url) : url[k] = "/"}
             from == IF stops = {} THEN Len(url) + 1
                     ELSE CHOOSE k \in stops : \A l \in stops : k <= l
             nls == {k \in from..Len(url) : url[k] = "\n"}
             to == IF nls = {} THEN Len(url)
                   ELSE (CHOOSE k \in nls : \A l \in nls : k <= l) - 1
         IN  Return(SubSeq(url, from, to))

-----------------------------------------------------------------------------
(* pathlib on POSIX.  A path keeps exactly two leading slashes, turns any  *)
(* other run of slashes into one and drops a trailing slash.               *)

RECURSIVE Squeeze(_)
Squeeze(s) ==
    IF \E i \in 1..(Len(s) - 1) : s[i] = "/" /\ s[i + 1] = "/"
    THEN LET i == CHOOSE k \in 1..(Len(s) - 1) : s[k] = "/" /\ s[k + 1] = "/"
         IN  Squeeze(SubSeq(s, 1, i) \o SubSeq(s, i + 2, Len(s)))
    ELSE s

DropTrailing(q) == IF Len(q) > 1 /\ q[Len(q)] = "/" THEN SubSeq(q, 1, Len(q) - 1) ELSE q

Path(s) ==
    IF Len(s) >= 2 /\ s[1] = "/" /\ s[2] = "/" /\ (Len(s) = 2 \/ s[3] # "/")
    THEN <<"/">> \o DropTrailing(Squeeze(s))
    ELSE DropTrailing(Squeeze(s))

(* base / s : an absolute right operand replaces the base.                 *)
Div(base, s) == IF StartsWith(s, <<"/">>) THEN Path(s) ELSE Path(base \o <<"/">> \o s)

(* PARENT_DIR is the resolved working directory of the process.            *)
PARENT_DIR == <<"/","w">>
DATA_DIR == Div(PARENT_DIR, <<"d","a","t","a">>)
RAW_DATA_DIR == Div(DATA_DIR, <<"r","a","w">>)

(* Path.exists(): the path itself, or a directory above a present path.    *)
Exists(files, p) ==
    \E q \in files :
        \/ q = p
        \/ /\ StartsWith(q, p)
           /\ Len(q) > Len(p)
           /\ (q[Len(p) + 1] = "/" \/ p[Len(p)] = "/")

(* batch data_file_exists: RAW_DATA_DIR/self.city_name/file_name           *)
data_file_exists(city, file_name, files) ==
    Exists(files, Div(Div(RAW_DATA_DIR, city), file_name))

(* RAW_DATA_DIR/f"{file_name}/{file_name}.csv"                             *)
CsvPath(file_name) == Div(RAW_DATA_DIR, file_name \o <<"/">> \o file_name \o S_csv)

-----------------------------------------------------------------------------
(* The world a download meets: whether the transport raises or answers,    *)
(* the status and the body of the answer (a zip archive with the member    *)
(* the code asks for, a zip archive without it, or no archive at all: an   *)
(* error status comes with the server's error document), and whether the   *)
(* archive file can be opened for writing.                                 *)

Env ==
    {[get |-> "ConnectionError", status |-> 0, body |-> "none", open_ok |-> FALSE]}
    \cup [get : {"response"}, status : {200},
          body : {"zip_with_member", "zip_without_member", "not_zip"},
          open_ok : BOOLEAN]
    \cup [get : {"response"}, status : {404}, body : {"not_zip"}, open_ok : BOOLEAN]

(* requests.get(url): requests raises MissingSchema, before anything is    *)
(* sent, for a url without a scheme; otherwise the world decides.  The     *)
(* status of the response is not looked at by any caller.                  *)
requests_get(url, env) ==
    IF ~StartsWith(url, S_https) THEN [exc |-> "MissingSchema", sent |-> FALSE, status |-> 0]
    ELSE IF env.get = "ConnectionError" THEN [exc |-> "ConnectionError", sent |-> TRUE, status |-> 0]
    ELSE [exc |-> "", sent |-> TRUE, status |-> env.status]

(* What write_and_extract_zipfile did: the exception that ended it, the    *)
(* archive written, the extraction, the files left.                        *)
Written(exc, file_name, wrote, extract_attempted, extracted, files) ==
    [exc |-> exc, file_name |-> file_name, wrote |-> wrote,
     extract_attempted |-> extract_attempted, extracted |-> extracted, files |-> files]

(* Lines 181-188 (hourly), 162-170 (batch): write the body to the archive  *)
(* path, open it as a zip, extract the member <file_name>.csv under the    *)
(* folder, remove the archive unless keep_zipfile.                         *)
WriteThenExtract(file_name, folder_path, zipfile_path, env, files, keep_zipfile) ==
    IF ~env.open_ok
    THEN Written("FileNotFoundError", file_name, None, FALSE, None, files)
    ELSE IF env.body = "not_zip"
    THEN Written("BadZipFile", file_name, zipfile_path, TRUE, None,
                 files \cup {zipfile_path})
    ELSE IF env.body = "zip_without_member"
    THEN Written("KeyError", file_name, zipfile_path, TRUE, None,
                 files \cup {zipfile_path})
    ELSE Written("", file_name, zipfile_path, TRUE,
                 Path(folder_path \o <<"/">> \o file_name \o S_csv),
                 (files \cup {zipfile_path, folder_path,
                              Path(folder_path \o <<"/">> \o file_name \o S_csv)})
                 \ (IF keep_zipfile THEN {} ELSE {zipfile_path}))

(* write_and_extract_zipfile (hourly, lines 176-188), the same statements  *)
(* inline in the batch download_one_file_of_raw_data (lines 157-170):      *)
(* file_name is zipfile_name[:-4], the folder RAW_DATA_DIR/file_name, the  *)
(* archive RAW_DATA_DIR/zipfile_name.                                      *)
write_and_extract_zipfile(zipfile_name, env, files, keep_zipfile) ==
    WriteThenExtract(DropLast4(zipfile_name), Div(RAW_DATA_DIR, DropLast4(zipfile_name)),
                     Div(RAW_DATA_DIR, zipfile_name), env, files, keep_zipfile)

(* What one download did: the exception that ended it, the url asked for,  *)
(* whether a request was sent and its status, the archive written, the     *)
(* extraction, the frame read, the errors logged, the files left.          *)
Download(exc, url, response, w, df, logged, files) ==
    [exc |-> exc, url |-> url, sent |-> response.sent, status |-> response.status,
     wrote |-> w.wrote, extract_attempted |-> w.extract_attempted,
     extracted |-> w.extracted, df |-> df, logged |-> logged, files |-> files]

NoResponse == [exc |-> "", sent |-> FALSE, status |-> 0]
NothingWritten(files) == Written("", <<>>, None, FALSE, None, files)

(* The end of the batch download_one_file_of_raw_data, line 172: read the  *)
(* extracted csv; the hourly one returns after the extraction.             *)
DownloadRead(sys, url, response, w) ==
    IF w.exc # "" THEN Download(w.exc, url.val, response, w, None, url.logged, w.files)
    ELSE IF sys = "hourly" THEN Download("", url.val, response, w, None, url.logged, w.files)
    ELSE IF Exists(w.files, CsvPath(w.file_name))
    THEN Download("", url.val, response, w, CsvPath(w.file_name), url.logged, w.files)
    ELSE Download("FileNotFoundError", url.val, response, w, None, url.logged, w.files)

(* After requests.get, lines 154-170 (batch), 195-196 (hourly).            *)
DownloadWrite(sys, url, zipfile_name, response, files, env) ==
    IF response.exc # ""
    THEN Download(response.exc, url.val, response, NothingWritten(files), None,
                  url.logged, files)
    ELSE DownloadRead(sys, url, response,
                      write_and_extract_zipfile(zipfile_name, env, files, FALSE))

(* After get_zipfile_name, lines 151-154 (batch), 153-157 (hourly).        *)
DownloadRequest(sys, url, zipfile_name, files, env) ==
    IF zipfile_name.exc # ""
    THEN Download(zipfile_name.exc, url.val, NoResponse, NothingWritten(files), None,
                  url.logged, files)
    ELSE DownloadWrite(sys, url, zipfile_name.val, requests_get(url.val, env), files, env)

(* After get_url_for_city_data, lines 150-151 (batch), 152-153 (hourly).   *)
DownloadName(sys, url, files, env) ==
    IF url.exc # ""
    THEN Download(url.exc, None, NoResponse, NothingWritten(files), None,
                  url.logged, files)
    ELSE DownloadRequest(sys, url, get_zipfile_name(url.val), files, env)

(* download_one_file_of_raw_data, both classes: resolve the url, name the  *)
(* archive, request it, write and extract it.  The batch class then reads  *)
(* the extracted csv and returns the frame; the hourly class returns None. *)
download_one_file_of_raw_data(sys, city, yr, month, files, env) ==
    DownloadName(sys, get_url_for_city_data(sys, city, yr, month), files, env)

-----------------------------------------------------------------------------
(* Bounds and inputs.                                                      *)

MaxMonth == 3       \* requested month lists are drawn from 1..MaxMonth
MaxUrlLen == 7      \* longest url handed directly to get_zipfile_name

Systems == {"batch", "hourly"}

(* city_name arguments of the constructor: the keys of both classes, a     *)
(* capitalised key and a city Lyft does not serve.                         *)
CityInputs ==
    {S_bay_area, S_chicago, S_new_york, S_columbus, S_washington_dc, S_portland,
     S_bay_area_sp, S_new_york_sp, <<"C","h","i","c","a","g","o">>,
     <<"b","o","s","t","o","n">>}

YearInputs == {PortlandLastYear, PortlandLastYear + 1, 2024}

ClockInputs == {[year |-> 2024, month |-> m] : m \in 1..12}

(* months arguments: not given, or a list of distinct months of 1..MaxMonth *)
(* in any order (the empty list included).                                 *)
MonthLists ==
    {l \in UNION {[1..n -> 1..MaxMonth] : n \in 0..MaxMonth} :
        \A i, j \in DOMAIN l : i # j => l[i] # l[j]}

MonthsGiven == {[given |-> TRUE, list |-> l] : l \in MonthLists}
MonthsNotGiven == {[given |-> FALSE, list |-> <<>>]}
SingleMonth == {[given |-> TRUE, list |-> <<m>>] : m \in 1..MaxMonth}

(* The base file name of a month, or a plain name for a city that has none. *)
NameOr(sys, city, yr, month) ==
    LET n == get_data_file_name(sys, city, yr, month)
    IN  IF n.exc = "" THEN n.val ELSE <<"d","a","t","a">>

(* file_name arguments of the hourly load_raw_data.                        *)
FileNameInputs(sys, city, yr) ==
    IF sys = "batch" THEN {<<>>}
    ELSE {NameOr(sys, city, yr, 1), NameOr(sys, city, yr, 2)}

(* Datasets another run may have left on disk: for month 1, the path the   *)
(* cache check looks at and the csv the loader reads.                      *)
SeedPaths(sys, city, yr) ==
    LET n == NameOr(sys, city, yr, 1)
    IN  {IF sys = "batch" THEN Div(Div(RAW_DATA_DIR, city), n) ELSE Div(RAW_DATA_DIR, n),
         CsvPath(n)}

-----------------------------------------------------------------------------
(* Construction.                                                           *)

(* __init__: lower-cases the city; the batch class asserts that it is a    *)
(* key of service_names, the hourly class does not.                        *)
Constructed(sys, city_arg) ==
    ~(sys = "batch" /\ lower(city_arg) \notin service_names("batch"))

NoCall == [given |-> FALSE, list |-> <<>>, just_download |-> FALSE, file_name |-> <<>>]
NoPrev == [made |-> FALSE, args |-> NoCall, months |-> <<>>, trace |-> <<>>,
           returned |-> "pending", raised |-> ""]
NoProbe == [fn |-> "none", month |-> 0, url |-> None, out |-> Return(None)]

InitWith(cityArgs, clocks, seeded) ==
    /\ system \in Systems
    /\ \E c \in cityArgs :
          /\ city_name = lower(c)
          /\ pc = IF Constructed(system, c) THEN "idle" ELSE "ctor_error"
    /\ year \in YearInputs
    /\ now \in clocks
    /\ fs \in IF seeded /\ pc = "idle"
              THEN SUBSET SeedPaths(system, city_name, year) ELSE {{}}
    /\ args = NoCall
    /\ months_to_query_for = <<>>
    /\ idx = 1
    /\ batches = <<>>
    /\ returned = "pending"
    /\ raised = ""
    /\ log = <<>>
    /\ trace = <<>>
    /\ ncalls = 0
    /\ prev = NoPrev
    /\ probe = NoProbe

-----------------------------------------------------------------------------
(* load_raw_data.                                                          *)

(* range(a, b) as the sequence the for loop walks.                         *)
range(a, b) == [i \in 1..(b - a) |-> a + i - 1]

(* MonthsToQueryFor walking a given list of months from its end.           *)
MonthsToQueryFor_Reversed(yr, clock, months) ==
    IF ~months.given
    THEN range(1, (IF yr = clock.year THEN clock.month ELSE 12) + 1)
    ELSE [i \in 1..Len(months.list) |-> months.list[Len(months.list) + 1 - i]]

(* MonthsToQueryFor with the range ending one month early.                 *)
MonthsToQueryFor_EndsEarly(yr, clock, months) ==
    IF ~months.given
    THEN range(1, IF yr = clock.year THEN clock.month ELSE 12)
    ELSE months.list

(* Lines 53-55 (batch), 54-56 (hourly): the months the loop walks.  The    *)
(* two dt.now() reads of a call are one sample of the clock.               *)
MonthsToQueryFor(yr, clock, months) ==
    LET is_current_year == (yr = clock.year)
        end_month == IF is_current_year THEN clock.month ELSE 12
    IN  IF ~months.given THEN range(1, end_month + 1) ELSE months.list

(* The call: evaluates the head of load_raw_data and enters the loop.      *)
Call(monthsInputs, maxCalls) ==
    /\ pc \in {"idle", "done"}
    /\ ncalls < maxCalls
    /\ \E m \in monthsInputs, jd \in BOOLEAN, f \in FileNameInputs(system, city_name, year) :
          /\ (system = "hourly") => ~jd
          /\ args' = [given |-> m.given, list |-> m.list, just_download |-> jd,
                      file_name |-> f]
          /\ months_to_query_for' = MonthsToQueryFor(year, now, m)
    /\ prev' = IF pc = "done"
               THEN [made |-> TRUE, args |-> args, months |-> months_to_query_for,
                     trace |-> trace, returned |-> returned, raised |-> raised]
               ELSE prev
    /\ pc' = "loop"
    /\ idx' = 1
    /\ batches' = <<>>
    /\ returned' = "pending"
    /\ raised' = ""
    /\ log' = <<>>
    /\ trace' = <<>>
    /\ ncalls' = ncalls + 1
    /\ UNCHANGED <<system, city_name, year, now, fs, probe>>

(* What one iteration did, as the trace keeps it.                          *)
Step(month) ==
    [month |-> month, name |-> None, hit |-> FALSE, attempted |-> FALSE,
     resolved |-> FALSE, sent |-> FALSE, status |-> 0, wrote |-> FALSE,
     extract_attempted |-> FALSE, extracted |-> FALSE,
     read |-> FALSE, got |-> FALSE, caught |-> <<>>, exc |-> ""]

Checked(month, name, hit) == [Step(month) EXCEPT !.name = name, !.hit = hit]

WithDownload(st, d) ==
    [st EXCEPT !.attempted = TRUE, !.resolved = (d.url # None), !.sent = d.sent,
               !.status = d.status, !.wrote = (d.wrote # None),
               !.extract_attempted = d.extract_attempted,
               !.extracted = (d.extracted # None)]

Errors(n, month) == [i \in 1..n |-> [level |-> "error", month |-> month]]
Success(month) == <<[level |-> "success", month |-> month]>>

(* The outcome of one iteration: its trace record, the files it leaves,    *)
(* what it logs, the frame it hands on, and whether it ends the call.      *)
Iteration(st, files, logged, frame, ends) ==
    [st |-> st, files |-> files, log |-> logged, frame |-> frame, ends |-> ends]

(* Batch lines 65 and 71-74: the download of a month that is not on disk;  *)
(* its exception leaves the call, in loading mode its frame is returned.   *)
BatchDownloaded(st, month, just_download, d) ==
    IF d.exc # ""
    THEN Iteration([WithDownload(st, d) EXCEPT !.exc = d.exc], d.files,
                   Errors(d.logged, month), None, TRUE)
    ELSE Iteration([WithDownload(st, d) EXCEPT !.read = TRUE, !.got = TRUE], d.files,
                   Errors(d.logged, month),
                   IF just_download THEN None ELSE d.df, ~just_download)

(* Batch lines 61-74, after the cache check.                               *)
BatchChecked(city, yr, month, just_download, files, env, name, hit) ==
    IF hit /\ just_download
    THEN Iteration(Checked(month, name, hit), files, Success(month), None, FALSE)
    ELSE IF hit /\ ~Exists(files, CsvPath(name))
    THEN Iteration([Checked(month, name, hit) EXCEPT !.read = TRUE,
                                                      !.exc = "FileNotFoundError"],
                   files, Success(month), None, TRUE)
    ELSE IF hit
    THEN Iteration([Checked(month, name, hit) EXCEPT !.read = TRUE, !.got = TRUE],
                   files, Success(month), CsvPath(name), TRUE)
    ELSE BatchDownloaded(Checked(month, name, hit), month, just_download,
             download_one_file_of_raw_data("batch", city, yr, month, files, env))

(* Batch line 59 onwards: a city without a file name ends the call.        *)
BatchNamed(city, yr, month, just_download, files, env, file_name) ==
    IF file_name.exc # ""
    THEN Iteration([Step(month) EXCEPT !.exc = file_name.exc], files, <<>>, None, TRUE)
    ELSE BatchChecked(city, yr, month, just_download, files, env, file_name.val,
                      data_file_exists(city, file_name.val, files))

(* One iteration of the batch loop, lines 58-74: it ends the call by the   *)
(* return of line 74 or by an exception, which nothing catches.            *)
BatchIteration(city, yr, month, just_download, files, env) ==
    BatchNamed(city, yr, month, just_download, files, env,
               get_data_file_name("batch", city, yr, month))

BatchApply(month, it) ==
    /\ trace' = Append(trace, it.st)
    /\ fs' = it.files
    /\ log' = log \o it.log
    /\ batches' = IF it.frame = None THEN batches
                  ELSE Append(batches, [month |-> month, src |-> it.frame])
    /\ raised' = it.st.exc
    /\ returned' = IF it.st.exc # "" THEN "raised"
                   ELSE IF it.ends THEN "DataFrame" ELSE "pending"
    /\ pc' = IF it.ends THEN "done" ELSE "loop"
    /\ idx' = IF it.ends THEN idx ELSE idx + 1

BatchLoopBody ==
    /\ pc = "loop"
    /\ system = "batch"
    /\ idx <= Len(months_to_query_for)
    /\ \E env \in Env :
          BatchApply(months_to_query_for[idx],
                     BatchIteration(city_name, year, months_to_query_for[idx],
                                    args.just_download, fs, env))
    /\ UNCHANGED <<system, city_name, year, now, args, months_to_query_for, ncalls,
                   prev, probe>>

(* Hourly lines 134-138: the exception of a failed download is caught and  *)
(* logged inside check_for_file_or_download.                               *)
HourlyDownloaded(st, month, d) ==
    [st |-> [WithDownload(st, d) EXCEPT !.caught = IF d.exc # "" THEN <<d.exc>> ELSE <<>>],
     files |-> d.files,
     log |-> <<[level |-> "info", month |-> month]>> \o Errors(d.logged, month)
             \o Errors(IF d.exc # "" THEN 1 ELSE 0, month)]

(* check_for_file_or_download (hourly), lines 131-140.                     *)
check_for_file_or_download(city, yr, file_name, month, files, env) ==
    IF Exists(files, Div(RAW_DATA_DIR, file_name))
    THEN [st |-> Checked(month, file_name, TRUE), files |-> files, log |-> Success(month)]
    ELSE HourlyDownloaded(Checked(month, file_name, FALSE), month,
             download_one_file_of_raw_data("hourly", city, yr, month, files, env))

(* Hourly lines 61-63: get_dataframe_from_folder(file_name) is yielded, or *)
(* its exception is logged and the loop goes on.                           *)
HourlyRead(c, file_name, month) ==
    IF Exists(c.files, CsvPath(file_name))
    THEN Iteration([c.st EXCEPT !.read = TRUE, !.got = TRUE], c.files, c.log,
                   CsvPath(file_name), FALSE)
    ELSE Iteration([c.st EXCEPT !.read = TRUE,
                                !.caught = Append(c.st.caught, "FileNotFoundError")],
                   c.files, c.log \o Errors(1, month), None, FALSE)

(* One iteration of the hourly loop, lines 58-63.                          *)
HourlyIteration(city, yr, file_name, month, files, env) ==
    HourlyRead(check_for_file_or_download(city, yr, file_name, month, files, env),
               file_name, month)

HourlyApply(month, it) ==
    /\ trace' = Append(trace, it.st)
    /\ fs' = it.files
    /\ log' = log \o it.log
    /\ batches' = IF it.frame = None THEN batches
                  ELSE Append(batches, [month |-> month, src |-> it.frame])
    /\ idx' = idx + 1

HourlyLoopBody ==
    /\ pc = "loop"
    /\ system = "hourly"
    /\ idx <= Len(months_to_query_for)
    /\ \E env \in Env :
          HourlyApply(months_to_query_for[idx],
                      HourlyIteration(city_name, year, args.file_name,
                                      months_to_query_for[idx], fs, env))
    /\ UNCHANGED <<system, city_name, year, now, pc, args, months_to_query_for,
                   returned, raised, ncalls, prev, probe>>

(* The loop is exhausted: the batch function falls off its end and         *)
(* returns None, the hourly generator stops.                               *)
LoopExit ==
    /\ pc = "loop"
    /\ idx > Len(months_to_query_for)
    /\ pc' = "done"
    /\ returned' = IF system = "batch" THEN "None" ELSE "StopIteration"
    /\ UNCHANGED <<system, city_name, year, now, fs, args, months_to_query_for, idx,
                   batches, raised, log, trace, ncalls, prev, probe>>

-----------------------------------------------------------------------------
(* Direct calls of the resolver functions on a fresh object.               *)

Fresh == pc = "idle" /\ probe.fn = "none"

Probe(fn, month, url, out) ==
    /\ probe' = [fn |-> fn, month |-> month, url |-> url, out |-> out]
    /\ UNCHANGED <<system, city_name, year, now, fs, pc, args, months_to_query_for, idx,
                   batches, returned, raised, log, trace, ncalls, prev>>

GetDataFileName ==
    /\ Fresh
    /\ \E month \in 1..12 :
        Probe("get_data_file_name", month, None,
              get_data_file_name(system, city_name, year, month))

GetUrlForCityData ==
    /\ Fresh
    /\ \E month \in 1..12 :
        Probe("get_url_for_city_data", month, None,
              get_url_for_city_data(system, city_name, year, month))

(* get_zipfile_name on what get_url_for_city_data returned, as             *)
(* download_one_file_of_raw_data calls it.                                 *)
GetZipfileNameOfUrl ==
    /\ Fresh
    /\ \E month \in 1..12 :
        Probe("get_zipfile_name", month,
              get_url_for_city_data(system, city_name, year, month).val,
              get_zipfile_name(get_url_for_city_data(system, city_name, year, month).val))

(* get_zipfile_name on any str of at most MaxUrlLen characters.            *)
UrlAlphabet == {"a", ":", "/", "\n"}
UrlInputs == UNION {[1..n -> UrlAlphabet] : n \in 0..MaxUrlLen}

GetZipfileName ==
    /\ Fresh
    /\ \E url \in UrlInputs : Probe("get_zipfile_name", 0, url, get_zipfile_name(url))

-----------------------------------------------------------------------------
(* Specifications.                                                         *)

FixedClock == {[year |-> 2024, month |-> 2]}

(* One load_raw_data call with a list of months, on any object, over any   *)
(* seeded disk.                                                            *)
LoadRawData == Call(MonthsGiven, 1)
Init == InitWith(CityInputs, FixedClock, TRUE)
Next == LoadRawData \/ BatchLoopBody \/ HourlyLoopBody \/ LoopExit
Spec == Init /\ [][Next]_vars

(* One load_raw_data call without months, at any month of the clock.       *)
LoadRawDataNoMonths == Call(MonthsNotGiven, 1)
InitClock == InitWith(CityInputs, ClockInputs, FALSE)
NextClock == LoadRawDataNoMonths \/ BatchLoopBody \/ HourlyLoopBody \/ LoopExit
SpecClock == InitClock /\ [][NextClock]_vars

(* Two load_raw_data calls in a row, each for one month.                   *)
LoadRawDataOneMonth == Call(SingleMonth, 2)
NextRepeat == LoadRawDataOneMonth \/ BatchLoopBody \/ HourlyLoopBody \/ LoopExit
SpecRepeat == Init /\ [][NextRepeat]_vars

(* The catalog resolver of any object.                                     *)
InitResolve == InitWith(CityInputs, FixedClock, FALSE)
NextResolve == GetDataFileName \/ GetUrlForCityData \/ GetZipfileNameOfUrl
SpecResolve == InitResolve /\ [][NextResolve]_vars

(* The static get_zipfile_name.                                            *)
InitZipName ==
    /\ InitWith({S_chicago}, FixedClock, FALSE)
    /\ system = "batch"
    /\ year = 2024
NextZipName == GetZipfileName \/ GetZipfileNameOfUrl
SpecZipName == InitZipName /\ [][NextZipName]_vars

-----------------------------------------------------------------------------
(* Claims.                                                                 *)

(* The fetch of an iteration went through: the archive was requested,      *)
(* written and extracted and nothing was raised or caught.                 *)
Fetched(st) == st.attempted /\ st.sent /\ st.extracted /\ st.exc = "" /\ st.caught = <<>>

(* The fetch of an iteration was tried and gave no dataset.                *)
FetchFailed(st) == st.attempted /\ ~st.extracted

NumErrors(l) == Cardinality({i \in DOMAIN l : l[i].level = "error"})
MonthsOf(b) == [i \in DOMAIN b |-> b[i].month]

(* C1 (as claimed): of two load calls made in a row for the same single    *)
(* month with the same arguments, the first having fetched the dataset,    *)
(* the second finds it in the cache and sends no request: one request is   *)
(* sent in total.                                                          *)
C1_IdempotentFetch ==
    (/\ pc = "done"
     /\ prev.made
     /\ prev.args = args
     /\ Len(prev.trace) = 1
     /\ Len(trace) = 1
     /\ Fetched(prev.trace[1]))
    => (trace[1].hit /\ ~trace[1].sent)

(* C2 (as claimed): in a finished call for the months 1, 2, 3 whose month  *)
(* 1 gave its dataset and whose month 2 fetch failed, no exception left    *)
(* the call and month 3 was processed; if month 3 gave its dataset too,    *)
(* the frames are those of months 1 and 3 and one error was logged.        *)
C2_PartialFailureIsolation ==
    (/\ pc = "done"
     /\ args.list = <<1, 2, 3>>
     /\ Len(trace) >= 2
     /\ (trace[1].hit \/ Fetched(trace[1]))
     /\ FetchFailed(trace[2]))
    => /\ raised = ""
       /\ Len(trace) = 3
       /\ (trace[3].hit \/ Fetched(trace[3]))
            => (MonthsOf(batches) = <<1, 3>> /\ NumErrors(log) = 1)

(* C3 (as claimed): a call in loading mode that ended without an exception *)
(* and whose every processed month gave its frame has processed every      *)
(* month of months_to_query_for and hands on the frames of all of them.    *)
C3_AllMonthsLoaded ==
    (/\ pc = "done"
     /\ ~args.just_download
     /\ raised = ""
     /\ \A i \in DOMAIN trace : trace[i].got)
    => /\ Len(trace) = Len(months_to_query_for)
       /\ MonthsOf(batches) = months_to_query_for

(* C4: when no months are requested, the months the call walks are         *)
(* exactly 1, 2, ..., currentMonth if year is the clock's year, and         *)
(* exactly 1, 2, ..., 12 otherwise.                                        *)
C4_CurrentYearBound ==
    (pc \in {"loop", "done"} /\ ~args.given)
    => /\ Len(months_to_query_for) = (IF year = now.year THEN now.month ELSE 12)
       /\ \A i \in DOMAIN months_to_query_for : months_to_query_for[i] = i

(* A call without months, in the clock's year, before December, walked     *)
(* every month up to the current one.                                      *)
C4_Witness ==
    /\ pc = "done"
    /\ ~args.given
    /\ year = now.year
    /\ now.month \in 2..11
    /\ Len(trace) = now.month

S_zip == <<".","z","i","p">>

(* C5 (as claimed): resolving the url for Portland raises for a year after *)
(* 2020; for 2020 it returns a url and the file name ends in .csv.         *)
C5_PortlandCutoff ==
    (probe.fn = "get_url_for_city_data" /\ city_name = S_portland)
    => /\ year > PortlandLastYear => probe.out.exc # ""
       /\ year = PortlandLastYear
            => /\ probe.out.exc = ""
               /\ probe.out.val # None
               /\ EndsWith(get_data_file_name(system, city_name, year, probe.month).val, S_csv)

(* C5 (amended): resolving the url for Portland and a year after 2020 logs *)
(* one error and returns None without raising; for 2020 it returns a url,  *)
(* logs nothing, and the file name and the url end in .csv.                *)
C5_PortlandCutoffAmended ==
    (probe.fn = "get_url_for_city_data" /\ city_name = S_portland)
    => /\ year > PortlandLastYear
            => (probe.out.exc = "" /\ probe.out.val = None /\ probe.out.logged = 1)
       /\ year = PortlandLastYear
            => /\ probe.out.exc = ""
               /\ probe.out.val # None
               /\ probe.out.logged = 0
               /\ EndsWith(probe.out.val, S_csv)
               /\ EndsWith(get_data_file_name(system, city_name, year, probe.month).val,
                           S_csv)

(* The url of Portland was resolved for a year after 2020.                 *)
C5_Witness ==
    /\ probe.fn = "get_url_for_city_data"
    /\ city_name = S_portland
    /\ year > PortlandLastYear
    /\ probe.out.val = None

(* C6 (as claimed): a resolved url is https:// followed by the city's url  *)
(* prefix, the file name of the period and .zip.                           *)
C6_UrlConstruction ==
    (probe.fn = "get_url_for_city_data" /\ probe.out.exc = "" /\ probe.out.val # None)
    => probe.out.val = S_https \o city_name_and_url_head(system)[city_name]
                       \o get_data_file_name(system, city_name, year, probe.month).val
                       \o S_zip

(* u is scheme://host followed by what starts at j (nothing when j is past *)
(* the end): the colon of the scheme is at i, the host ends before j.      *)
SchemeHostAt(u, i, j) ==
    /\ i >= 2
    /\ i + 3 < j
    /\ j <= Len(u) + 1
    /\ SubSeq(u, i, i + 2) = <<":", "/", "/">>
    /\ \A k \in 1..(i - 1) : u[k] \notin {":", "/", "\n"}
    /\ \A k \in (i + 3)..(j - 1) : u[k] \notin {":", "/", "\n"}
    /\ \A k \in j..Len(u) : u[k] # "\n"
    /\ j <= Len(u) => u[j] = "/"

(* C7 (as claimed): for a url scheme://host/path get_zipfile_name returns  *)
(* /path, and for a url scheme://host with no path it raises.              *)
C7_ArchiveNameFromUrl ==
    (probe.fn = "get_zipfile_name" /\ probe.url # None)
    => \A i, j \in 1..(Len(probe.url) + 1) :
          SchemeHostAt(probe.url, i, j)
          => IF j <= Len(probe.url)
             THEN probe.out = Return(SubSeq(probe.url, j, Len(probe.url)))
             ELSE probe.out.exc # ""

(* C8 (as claimed): for every city the constructor's service_names table   *)
(* has, the file name and the url resolve for every month (Portland after  *)
(* 2020 aside).                                                            *)
C8_PerCityTables ==
    (/\ probe.fn \in {"get_data_file_name", "get_url_for_city_data"}
     /\ city_name \in service_names(system)
     /\ ~(city_name = S_portland /\ year > PortlandLastYear))
    => (probe.out.exc = "" /\ probe.out.val # None)

(* C9 (as claimed): after a response with a non-success status nothing is  *)
(* written and no extraction is attempted.                                 *)
C9_NonSuccessStatusIsFatal ==
    \A i \in DOMAIN trace :
        (trace[i].sent /\ trace[i].status \notin {0} \cup 200..299)
        => (~trace[i].wrote /\ ~trace[i].extract_attempted)

(* C10 (as claimed): for a city without a file name, the iteration that    *)
(* resolves the name (every iteration of the batch loop, an iteration of   *)
(* the hourly loop that downloads) ends the call with the exception,       *)
(* which is not caught.                                                    *)
C10_UnsupportedCityPropagates ==
    (get_data_file_name(system, city_name, year, 1).exc # "")
    => \A i \in DOMAIN trace :
          (system = "batch" \/ trace[i].attempted)
          => /\ trace[i].exc # ""
             /\ trace[i].caught = <<>>
             /\ raised = trace[i].exc
             /\ i = Len(trace)

(* C11 (as claimed): whatever the order of the requested months, a call    *)
(* processes them in ascending order: of two iterations of one call, the   *)
(* earlier one is for the smaller month, and so for the frames handed on.  *)
C11_AscendingMonthOrder ==
    args.given
    => /\ \A i, j \in DOMAIN trace : i < j => trace[i].month < trace[j].month
       /\ \A i, j \in DOMAIN batches : i < j => batches[i].month < batches[j].month

(* C11 (amended): a call processes the requested months in the order the   *)
(* caller supplies them: iteration i is for the i-th month of the list,    *)
(* and the frames handed on are in the order of the list.                  *)
C11_CallerMonthOrder ==
    args.given
    => /\ months_to_query_for = args.list
       /\ Len(trace) <= Len(args.list)
       /\ \A i \in DOMAIN trace : trace[i].month = args.list[i]
       /\ \A i, j \in DOMAIN batches :
             i < j => \E k, l \in DOMAIN trace :
                         /\ k < l
                         /\ trace[k].month = batches[i].month
                         /\ trace[l].month = batches[j].month

(* A finished call for a list of months that does not ascend processed     *)
(* every month of it.                                                      *)
C11_Witness ==
    /\ pc = "done"
    /\ args.given
    /\ Len(args.list) >= 2
    /\ args.list[1] > args.list[2]
    /\ Len(trace) = Len(args.list)

(* C12 (as claimed): for a city that has file names, the cache check of    *)
(* the iteration for month m probes the dataset named by                   *)
(* get_data_file_name for m, the frame handed on for m is read from that   *)
(* dataset, and the frames of two different months are read from           *)
(* different datasets.                                                     *)
C12_MonthDatasetCorrespondence ==
    (get_data_file_name(system, city_name, year, 1).exc = "")
    => /\ \A i \in DOMAIN trace :
             trace[i].name = get_data_file_name(system, city_name, year, trace[i].month).val
       /\ \A i \in DOMAIN batches :
             batches[i].src
               = CsvPath(get_data_file_name(system, city_name, year, batches[i].month).val)
       /\ \A i, j \in DOMAIN batches :
             batches[i].month # batches[j].month => batches[i].src # batches[j].src

====
